---- MODULE Spec2Model ----
(***************************************************************************)
(* Property-sale backend: the Socket.IO message relay, the Clerk webhook   *)
(* and the database bootstrap of src/index.js.  src/index.js holds two     *)
(* builds of the server: lines 1-201 (the "defensive" build: guarded relay *)
(* handlers, connectDB, serverless handler) and lines 202-568 (the "naive" *)
(* build: unguarded relay handlers, the Clerk webhook).  `variant` says    *)
(* which build runs.                                                       *)
(***************************************************************************)
EXTENDS Integers, Sequences, FiniteSets

VARIABLES
    variant,      \* "defensive" (index.js 1-201) or "naive" (index.js 202-568)
    \* ---- relay (io.on("connection")) ----
    connected,    \* the sockets with an open session
    rooms,        \* rooms[c]: the rooms socket c joined through socket.join
    joinEmitted,  \* history: the join_room arguments c emitted this session
    rejoined,     \* history: c emitted a join_room argument a second time
    last,         \* the last client event handled and what it delivered
    uncaught,     \* a listener threw: the process died with an uncaught exception
    events,       \* number of client events handled so far
    \* ---- Clerk webhook (app.post("/api/webhooks/clerk")) and the User store ----
    secret,       \* process.env.CLERK_WEBHOOK_SECRET is set
    uniqueIndex,  \* the User schema declares email unique
    store,        \* the User collection: records [id, clerkId, email]
    nextId,       \* the _id the next inserted document gets
    reqs,         \* reqs[r]: webhook request r, its position and its response
    \* ---- database bootstrap and the HTTP entry paths ----
    serverless,   \* process.env.VERCEL || process.env.AWS_LAMBDA_FUNCTION_NAME
    isConnected,  \* connectDB's flag
    db,           \* what mongoose.connect last did: the connectivity state
    started,      \* number of mongoose.connect calls made so far
    anyFailed,    \* some mongoose.connect call was rejected
    boot,         \* startServer() / main(), the call made while the module loads
    listening,    \* expressServer.listen was called
    exited,       \* process.exit(1) was called
    calls         \* calls[c]: a /health request, its entry path, position and answer

relayVars == <<connected, rooms, joinEmitted, rejoined, last, uncaught, events>>
hookVars == <<secret, uniqueIndex, store, nextId, reqs>>
bootVars == <<serverless, isConnected, db, started, anyFailed, boot,
              listening, exited, calls>>
vars == <<variant, relayVars, hookVars, bootVars>>

\* ---------------------------------------------------------------- bounds
MaxConns == 3
MaxEvents == 5
MaxReqs == 2
MaxCalls == 3

Conns == 1 .. MaxConns
Variants == {"defensive", "naive"}

\* ------------------------------------------------------------- JS values
Undef == [t |-> "undefined", v |-> ""]
Str(s) == [t |-> "string", v |-> s]

\* JS truthiness of undefined and of strings
Truthy(x) == x.t = "string" /\ x.v # ""

\* the template literal `${x}`
ToStr(x) == IF x.t = "undefined" THEN "undefined" ELSE x.v

\* the values a client puts in chatId (and passes to join_room) and in `to`
ChatVals == {Undef, Str(""), Str("c1"), Str("c2")}
ToVals == {Undef, Str(""), Str("u1"), Str("receive_message")}

\* a send_message argument: null/undefined, or an object with optional fields
Null == [null |-> TRUE, chatId |-> Undef, to |-> Undef]
Obj(c, t) == [null |-> FALSE, chatId |-> c, to |-> t]
Payloads == {Null} \cup {Obj(c, t) : c \in ChatVals, t \in ToVals}

\* an event put on a socket; `via` records which emit produced it
Ev(n, d, p) == [name |-> n, data |-> d, via |-> p]

NoDeliv == [c \in Conns |-> <<>>]
Idle == [op |-> "none", conn |-> 0, arg |-> Undef, data |-> Null,
         again |-> FALSE, deliv |-> NoDeliv, threw |-> FALSE]

\* ------------------------------------------------------- socket.io calls
\* (mutation: the room emit also reaches the sender)
SocketToWithSender(s, room) == {c \in connected : room \in rooms[c]}

\* socket.to(room): the sockets in `room`, the sender excepted
SocketTo(s, room) == {c \in connected : room \in rooms[c]} \ {s}

\* (mutation: the broadcast also reaches the sender)
SocketBroadcastWithSender(s) == connected

\* socket.broadcast: every connected socket, the sender excepted
SocketBroadcast(s) == connected \ {s}

\* (mutation: joining a room the socket is in leaves it)
SocketJoinToggle(rs, room) ==
    IF room \in rs THEN rs \ {room} ELSE rs \cup {room}

\* socket.join(room) on the rooms a socket is in
SocketJoin(rs, room) == rs \cup {room}

\* ------------------------------------------------------------- handlers
\* join_room: `if (chatId)` in the defensive build, unconditional in the naive
JoinGuard(k) == IF variant = "defensive" THEN Truthy(k) ELSE TRUE

\* send_message: `if (data?.chatId && data?.to)` in the defensive build
SendGuard(d) ==
    IF variant = "defensive"
    THEN ~d.null /\ Truthy(d.chatId) /\ Truthy(d.to)
    ELSE TRUE

\* the two emits of send_message, in order, as seen by socket c
Emits(s, d, c) ==
    (IF c \in SocketTo(s, d.chatId)
     THEN <<Ev("receive_message", d, "room")>> ELSE <<>>)
    \o
    (IF c \in SocketBroadcast(s)
     THEN <<Ev(ToStr(d.to), d, "broadcast")>> ELSE <<>>)

Connect(c) ==
    /\ ~uncaught /\ events < MaxEvents
    /\ c \notin connected
    /\ connected' = connected \cup {c}
    /\ last' = [Idle EXCEPT !.op = "connect", !.conn = c]
    /\ events' = events + 1
    /\ UNCHANGED <<variant, rooms, joinEmitted, rejoined, uncaught, hookVars, bootVars>>

JoinRoom(c, k) ==
    /\ ~uncaught /\ events < MaxEvents
    /\ c \in connected
    /\ rooms' = IF JoinGuard(k)
                THEN [rooms EXCEPT ![c] = SocketJoin(@, k)]
                ELSE rooms
    /\ joinEmitted' = [joinEmitted EXCEPT ![c] = @ \cup {k}]
    /\ rejoined' = [rejoined EXCEPT ![c] = @ \/ k \in joinEmitted[c]]
    /\ last' = [Idle EXCEPT !.op = "join_room", !.conn = c, !.arg = k,
                            !.again = (k \in joinEmitted[c])]
    /\ events' = events + 1
    /\ UNCHANGED <<variant, connected, uncaught, hookVars, bootVars>>

\* the naive listener reads data.chatId of a null argument: a TypeError no one
\* catches, which ends the process and with it every session
SendThrows(s) ==
    /\ uncaught' = TRUE
    /\ connected' = {}
    /\ rooms' = [c \in Conns |-> {}]
    /\ joinEmitted' = [c \in Conns |-> {}]
    /\ rejoined' = [c \in Conns |-> FALSE]
    /\ last' = [Idle EXCEPT !.op = "send_message", !.conn = s, !.threw = TRUE]

SendMessage(s, d) ==
    /\ ~uncaught /\ events < MaxEvents
    /\ s \in connected
    /\ events' = events + 1
    /\ UNCHANGED <<variant, hookVars, bootVars>>
    /\ IF ~SendGuard(d)
       THEN /\ last' = [Idle EXCEPT !.op = "send_message", !.conn = s, !.data = d]
            /\ UNCHANGED <<connected, rooms, joinEmitted, rejoined, uncaught>>
       ELSE IF d.null
       THEN SendThrows(s)
       ELSE /\ last' = [Idle EXCEPT !.op = "send_message", !.conn = s, !.data = d,
                                    !.deliv = [c \in Conns |-> Emits(s, d, c)]]
            /\ UNCHANGED <<connected, rooms, joinEmitted, rejoined, uncaught>>

\* the transport closes: socket.io takes the socket out of every room, then
\* runs the "disconnect" listener, which only logs
Disconnect(c) ==
    /\ ~uncaught /\ events < MaxEvents
    /\ c \in connected
    /\ connected' = connected \ {c}
    /\ rooms' = [rooms EXCEPT ![c] = {}]
    /\ joinEmitted' = [joinEmitted EXCEPT ![c] = {}]
    /\ rejoined' = [rejoined EXCEPT ![c] = FALSE]
    /\ last' = [Idle EXCEPT !.op = "disconnect", !.conn = c]
    /\ events' = events + 1
    /\ UNCHANGED <<variant, uncaught, hookVars, bootVars>>

RelayInit ==
    /\ connected = {}
    /\ rooms = [c \in Conns |-> {}]
    /\ joinEmitted = [c \in Conns |-> {}]
    /\ rejoined = [c \in Conns |-> FALSE]
    /\ last = Idle
    /\ uncaught = FALSE
    /\ events = 0

\* ------------------------------------------------------------- webhook
Reqs == 1 .. MaxReqs
ClerkIds == {"k1", "k2"}

\* Clerk's email_addresses and primary_email_address_id, as the events carry them
TwoEmails == <<[id |-> "e1", email_address |-> "a"],
               [id |-> "e2", email_address |-> "b"]>>
UserData == {[id |-> k, email_addresses |-> l[1], primary |-> l[2]] :
                k \in ClerkIds,
                l \in {<< <<>>, "none" >>, <<TwoEmails, "e2">>, <<TwoEmails, "none">>}}
NoData == [id |-> "", email_addresses |-> <<>>, primary |-> "none"]

\* the events Clerk sends: user.deleted carries the id alone, and an event of
\* another type is not read past its type
WebhookEvents ==
    {[type |-> t, data |-> d] : t \in {"user.created", "user.updated"}, d \in UserData}
    \cup {[type |-> "user.deleted", data |-> [NoData EXCEPT !.id = k]] : k \in ClerkIds}
    \cup {[type |-> "session.created", data |-> NoData]}

\* primaryEmail?.email_address || email_addresses?.[0]?.email_address || ""
EmailAddress(data) ==
    LET l == data.email_addresses
        hits == {i \in DOMAIN l : l[i].id = data.primary}
        first == CHOOSE i \in hits : \A j \in hits : i <= j
    IN  IF hits # {} /\ l[first].email_address # ""
        THEN l[first].email_address
        ELSE IF Len(l) > 0 THEN l[1].email_address ELSE ""

NoReq == [pc |-> "idle", type |-> "none", data |-> NoData, target |-> 0,
          status |-> 0, error |-> "", cause |-> "none",
          fresh |-> FALSE, made |-> 0, removed |-> FALSE]

\* res.status(200).json({success: true, ...})
Respond200(q) == [q EXCEPT !.pc = "done", !.status = 200]

\* the route's catch: whatever was thrown, by wh.verify or by a handler
Catch(q, why) ==
    [q EXCEPT !.pc = "done", !.status = 400, !.cause = why,
              !.error = "Webhook verification failed"]

\* wh.verify(payloadString, headers) returns the event or throws
Verify(sigOk) == sigOk

\* the switch on event.type: where each handler first awaits the store
FirstAwait(type) ==
    CASE type = "user.created" -> "findOne"
      [] type = "user.updated" -> "findOneAndUpdate"
      [] type = "user.deleted" -> "findOneAndDelete"
      [] OTHER -> "done"

\* the route, from the request's arrival to the handler's first await; the
\* body is parsed by wh.verify alone, so a rejected request has no event
WebhookReceive(r, ev, sigOk) ==
    /\ reqs[r].pc = "idle"
    /\ \A j \in Reqs : j < r => reqs[j].pc # "idle"
    /\ LET q == [reqs[r] EXCEPT !.type = ev.type, !.data = ev.data] IN
       reqs' = [reqs EXCEPT ![r] =
          IF ~secret
          THEN [reqs[r] EXCEPT !.pc = "done", !.status = 400, !.cause = "secret",
                               !.error = "Webhook secret not configured"]
          ELSE IF ~Verify(sigOk) THEN Catch(reqs[r], "signature")
          ELSE IF FirstAwait(ev.type) = "done" THEN Respond200(q)
          ELSE [q EXCEPT !.pc = FirstAwait(ev.type)]]
    /\ UNCHANGED <<variant, relayVars, bootVars, secret, uniqueIndex, store, nextId>>

\* a unique index rejects a document whose email another document holds
Duplicate(email, self) ==
    uniqueIndex /\ \E u \in store : u.id # self /\ u.email = email

\* User.findOne({$or: [{clerkId}, {email: emailAddress}]}) and what follows it
\* up to the next await
FindOne(r, ok) ==
    /\ reqs[r].pc = "findOne"
    /\ LET q == reqs[r]
           hits == {u \in store : u.clerkId = q.data.id
                                  \/ u.email = EmailAddress(q.data)}
       IN  IF ~ok THEN reqs' = [reqs EXCEPT ![r] = Catch(q, "store")]
           ELSE IF hits = {}
           THEN reqs' = [reqs EXCEPT ![r] = [q EXCEPT !.pc = "saveNew",
                                                      !.fresh = TRUE]]
           ELSE \E u \in hits :
                  reqs' = [reqs EXCEPT ![r] =
                     IF u.clerkId = ""
                     THEN [q EXCEPT !.pc = "saveExisting", !.target = u.id]
                     ELSE Respond200(q)]
    /\ UNCHANGED <<variant, relayVars, bootVars, secret, uniqueIndex, store, nextId>>

\* existingUser.clerkId = clerkId; await existingUser.save()
SaveExisting(r, ok) ==
    /\ reqs[r].pc = "saveExisting"
    /\ LET q == reqs[r]
           docs == {u \in store : u.id = q.target}
       IN  IF ~ok \/ docs = {}
           THEN /\ reqs' = [reqs EXCEPT ![r] = Catch(q, "store")]
                /\ store' = store
           ELSE /\ store' = (store \ docs)
                             \cup {[u EXCEPT !.clerkId = q.data.id] : u \in docs}
                /\ reqs' = [reqs EXCEPT ![r] = Respond200(q)]
    /\ UNCHANGED <<variant, relayVars, bootVars, secret, uniqueIndex, nextId>>

\* new User({clerkId, email, ...}); await newUser.save(); sendWelcomeNotification
SaveNew(r, ok) ==
    /\ reqs[r].pc = "saveNew"
    /\ LET q == reqs[r]
           email == EmailAddress(q.data)
       IN  IF ~ok \/ Duplicate(email, 0)
           THEN /\ reqs' = [reqs EXCEPT ![r] = Catch(q, "store")]
                /\ UNCHANGED <<store, nextId>>
           ELSE /\ store' = store \cup {[id |-> nextId, clerkId |-> q.data.id,
                                         email |-> email]}
                /\ nextId' = nextId + 1
                /\ reqs' = [reqs EXCEPT ![r] = Respond200([q EXCEPT !.made = 1])]
    /\ UNCHANGED <<variant, relayVars, bootVars, secret, uniqueIndex>>

\* User.findOneAndUpdate({clerkId}, {$set: {email, ...}})
FindOneAndUpdate(r, ok) ==
    /\ reqs[r].pc = "findOneAndUpdate"
    /\ LET q == reqs[r]
           email == EmailAddress(q.data)
           hits == {u \in store : u.clerkId = q.data.id}
       IN  IF ~ok
           THEN /\ reqs' = [reqs EXCEPT ![r] = Catch(q, "store")]
                /\ store' = store
           ELSE IF hits = {}
           THEN /\ reqs' = [reqs EXCEPT ![r] = Respond200(q)]
                /\ store' = store
           ELSE \E u \in hits :
                  IF Duplicate(email, u.id)
                  THEN /\ reqs' = [reqs EXCEPT ![r] = Catch(q, "store")]
                       /\ store' = store
                  ELSE /\ store' = (store \ {u}) \cup {[u EXCEPT !.email = email]}
                       /\ reqs' = [reqs EXCEPT ![r] = Respond200(q)]
    /\ UNCHANGED <<variant, relayVars, bootVars, secret, uniqueIndex, nextId>>

\* (mutation: a user that is not there is answered 404)
DeleteMissIsError(q) ==
    [q EXCEPT !.pc = "done", !.status = 404, !.error = "User not found"]

\* findOneAndDelete found no one: a log line, and the route answers 200
DeleteMiss(q) == Respond200(q)

\* User.findOneAndDelete({clerkId}); cleanupUserData only logs
FindOneAndDelete(r, ok) ==
    /\ reqs[r].pc = "findOneAndDelete"
    /\ LET q == reqs[r]
           hits == {u \in store : u.clerkId = q.data.id}
       IN  IF ~ok
           THEN /\ reqs' = [reqs EXCEPT ![r] = Catch(q, "store")]
                /\ store' = store
           ELSE IF hits = {}
           THEN /\ reqs' = [reqs EXCEPT ![r] = DeleteMiss(q)]
                /\ store' = store
           ELSE \E u \in hits :
                  /\ store' = store \ {u}
                  /\ reqs' = [reqs EXCEPT ![r] = Respond200([q EXCEPT !.removed = TRUE])]
    /\ UNCHANGED <<variant, relayVars, bootVars, secret, uniqueIndex, nextId>>

\* the webhook at rest: secret set, empty collection, no request
HookIdle ==
    /\ secret = TRUE
    /\ uniqueIndex = FALSE
    /\ store = {}
    /\ nextId = 1
    /\ reqs = [r \in Reqs |-> NoReq]

\* the collection at start: empty, one user of the site's own sign-up (no
\* clerkId), or one user an earlier user.created event provisioned
InitialStores ==
    {{}, {[id |-> 1, clerkId |-> "", email |-> "a"]},
         {[id |-> 1, clerkId |-> "k1", email |-> "a"]}}


\* ------------------------------------------- connectDB and the entry paths
Calls == 1 .. MaxCalls

NoCall == [pc |-> "idle", entry |-> "none", status |-> 0, threw |-> FALSE,
           dbThen |-> "disconnected"]

\* the /health route: res.json(...) in the defensive build, res.status(200)
\* .json(...) in the naive one; neither reads the database
Health(q, entry) ==
    [q EXCEPT !.pc = "done", !.entry = entry, !.status = 200, !.dbThen = db]

\* connectDB's guard: `if (isConnected) return;`
AlreadyConnected == isConnected

\* isConnected = conn.connections[0].readyState === 1
ReadyState(ready) == ready

\* the module load of each build: startServer() or main() runs up to its await
\* of mongoose.connect, and the naive build calls listen at once
BootInit ==
    /\ serverless \in BOOLEAN
    /\ isConnected = FALSE
    /\ anyFailed = FALSE
    /\ exited = FALSE
    /\ calls = [c \in Calls |-> NoCall]
    /\ IF variant = "defensive" /\ serverless
       THEN boot = "none" /\ started = 0 /\ db = "disconnected"
       ELSE boot = "connecting" /\ started = 1 /\ db = "connecting"
    /\ listening = (variant = "naive")

\* the bootstrap at rest: a listening server, no connect made, no request
BootIdle ==
    /\ serverless = FALSE
    /\ isConnected = FALSE
    /\ anyFailed = FALSE
    /\ exited = FALSE
    /\ calls = [c \in Calls |-> NoCall]
    /\ boot = "none" /\ started = 0 /\ db = "disconnected"
    /\ listening = TRUE

\* startServer after its await: listen, or process.exit(1) on a rejection
StartServerResumes(ok, ready) ==
    /\ variant = "defensive" /\ boot = "connecting"
    /\ IF ok
       THEN /\ isConnected' = ReadyState(ready)
            /\ db' = IF ready THEN "connected" ELSE "disconnected"
            /\ boot' = "done"
            /\ listening' = TRUE
            /\ UNCHANGED <<anyFailed, exited>>
       ELSE /\ boot' = "failed"
            /\ db' = "failed"
            /\ anyFailed' = TRUE
            /\ exited' = TRUE
            /\ UNCHANGED <<isConnected, listening>>
    /\ UNCHANGED <<variant, relayVars, hookVars, serverless, started, calls>>

\* main() after its await: a log line either way, the server keeps listening
MainResumes(ok) ==
    /\ variant = "naive" /\ boot = "connecting"
    /\ boot' = IF ok THEN "done" ELSE "failed"
    /\ db' = IF ok THEN "connected" ELSE "failed"
    /\ anyFailed' = (anyFailed \/ ~ok)
    /\ UNCHANGED <<variant, relayVars, hookVars, serverless, isConnected,
                   started, listening, exited, calls>>

\* a /health request on the listening server
HealthDirect(c) ==
    /\ listening /\ ~exited
    /\ calls[c].pc = "idle"
    /\ \A j \in Calls : j < c => calls[j].pc # "idle"
    /\ calls' = [calls EXCEPT ![c] = Health(@, "listen")]
    /\ UNCHANGED <<variant, relayVars, hookVars, serverless, isConnected, db,
                   started, anyFailed, boot, listening, exited>>

\* handler(req, res) up to its await: connectDB returns at once when the flag
\* is set, and calls mongoose.connect otherwise
HandlerInvoked(c) ==
    /\ variant = "defensive" /\ ~exited
    /\ calls[c].pc = "idle"
    /\ \A j \in Calls : j < c => calls[j].pc # "idle"
    /\ IF AlreadyConnected
       THEN /\ calls' = [calls EXCEPT ![c] = Health(@, "handler")]
            /\ UNCHANGED <<started, db>>
       ELSE /\ calls' = [calls EXCEPT ![c] = [@ EXCEPT !.pc = "connecting",
                                                       !.entry = "handler"]]
            /\ started' = started + 1
            /\ db' = IF db = "connected" THEN db ELSE "connecting"
    /\ UNCHANGED <<variant, relayVars, hookVars, serverless, isConnected,
                   anyFailed, boot, listening, exited>>

\* handler after connectDB's await: app(req, res), or the rejection rethrown
HandlerResumes(c, ok, ready) ==
    /\ ~exited
    /\ calls[c].pc = "connecting"
    /\ IF ok
       THEN /\ isConnected' = ReadyState(ready)
            /\ db' = IF ready THEN "connected" ELSE "disconnected"
            /\ calls' = [calls EXCEPT ![c] =
                  [Health(@, "handler") EXCEPT !.dbThen = db']]
            /\ UNCHANGED anyFailed
       ELSE /\ db' = "failed"
            /\ anyFailed' = TRUE
            /\ calls' = [calls EXCEPT ![c] =
                  [@ EXCEPT !.pc = "done", !.threw = TRUE, !.dbThen = "failed"]]
            /\ UNCHANGED isConnected
    /\ UNCHANGED <<variant, relayVars, hookVars, serverless, started, boot,
                   listening, exited>>

\* only the naive build registers the webhook route
HookInit ==
    /\ variant = "naive"
    /\ RelayInit
    /\ secret \in BOOLEAN
    /\ uniqueIndex \in BOOLEAN
    /\ store \in InitialStores
    /\ nextId = 2
    /\ reqs = [r \in Reqs |-> NoReq]
    /\ BootIdle

HookNext ==
    \/ \E r \in Reqs, ev \in WebhookEvents, sigOk \in BOOLEAN :
          WebhookReceive(r, ev, sigOk)
    \/ \E r \in Reqs, ok \in BOOLEAN : FindOne(r, ok)
    \/ \E r \in Reqs, ok \in BOOLEAN : SaveExisting(r, ok)
    \/ \E r \in Reqs, ok \in BOOLEAN : SaveNew(r, ok)
    \/ \E r \in Reqs, ok \in BOOLEAN : FindOneAndUpdate(r, ok)
    \/ \E r \in Reqs, ok \in BOOLEAN : FindOneAndDelete(r, ok)

SpecWebhook == HookInit /\ [][HookNext]_vars

BootSpecInit ==
    /\ variant \in Variants
    /\ RelayInit
    /\ HookIdle
    /\ BootInit

BootNext ==
    \/ \E ok, ready \in BOOLEAN : StartServerResumes(ok, ready)
    \/ \E ok \in BOOLEAN : MainResumes(ok)
    \/ \E c \in Calls : HealthDirect(c)
    \/ \E c \in Calls : HandlerInvoked(c)
    \/ \E c \in Calls, ok, ready \in BOOLEAN : HandlerResumes(c, ok, ready)

SpecBoot == BootSpecInit /\ [][BootNext]_vars

Init ==
    /\ variant \in Variants
    /\ RelayInit
    /\ HookIdle
    /\ BootIdle

Next ==
    \/ \E c \in Conns : Connect(c)
    \/ \E c \in Conns, k \in ChatVals : JoinRoom(c, k)
    \/ \E s \in Conns, d \in Payloads : SendMessage(s, d)
    \/ \E c \in Conns : Disconnect(c)

Spec == Init /\ [][Next]_vars

\* ================================================================ claims
CountName(q, n) == Cardinality({i \in DOMAIN q : q[i].name = n})
CountVia(q, p) == Cardinality({i \in DOMAIN q : q[i].via = p})

\* the last event was a send_message whose listener returned
Sent == last.op = "send_message" /\ ~last.threw

\* what each build relays: any object in the naive build, an object with a
\* non-empty chatId and a non-empty `to` in the defensive build
Relayed(d) ==
    /\ ~d.null
    /\ variant = "defensive" => (Truthy(d.chatId) /\ Truthy(d.to))

\* the receive_message events a relayed payload puts on a socket of its room:
\* one from the room emit, one more when `to` itself reads "receive_message"
Expected(d) == IF ToStr(d.to) = "receive_message" THEN 2 ELSE 1

\* ---- C1 ----
\* C1 as stated: when S sends a payload carrying chatId, every other connected
\* R that emitted join_room(chatId) gets exactly one receive_message, carrying
\* that payload, and S gets none.
C1_AsStated ==
    (Sent /\ ~last.data.null /\ last.data.chatId.t = "string") =>
        /\ \A r \in connected \ {last.conn} :
              last.data.chatId \in joinEmitted[r] =>
                 /\ CountName(last.deliv[r], "receive_message") = 1
                 /\ \A i \in DOMAIN last.deliv[r] :
                       last.deliv[r][i].name = "receive_message"
                          => last.deliv[r][i].data = last.data
        /\ CountName(last.deliv[last.conn], "receive_message") = 0

\* C1 amended: when S sends a payload carrying chatId that its build relays
\* (defensive: `to` must be non-empty too), every other connected R that
\* emitted join_room(chatId) gets exactly one receive_message from the room
\* emit, carrying that payload; R's receive_message events number one, or two
\* when `to` is "receive_message"; S gets no event at all.
C1_RoomDelivery ==
    (Sent /\ Relayed(last.data) /\ last.data.chatId.t = "string") =>
        /\ \A r \in connected \ {last.conn} :
              last.data.chatId \in joinEmitted[r] =>
                 /\ CountVia(last.deliv[r], "room") = 1
                 /\ last.deliv[r][1] = Ev("receive_message", last.data, "room")
                 /\ CountName(last.deliv[r], "receive_message")
                       = Expected(last.data)
                 /\ \A i \in DOMAIN last.deliv[r] :
                       last.deliv[r][i].data = last.data
        /\ last.deliv[last.conn] = <<>>

\* a sender that is itself in the room relays to a joined receiver
C1_Witness ==
    /\ Sent /\ Relayed(last.data)
    /\ last.data = Obj(Str("c1"), Str("u1"))
    /\ Str("c1") \in joinEmitted[last.conn]
    /\ \E r \in connected \ {last.conn} :
          /\ Str("c1") \in joinEmitted[r]
          /\ Len(last.deliv[r]) = 2

\* ---- C2 ----
\* C2 as stated: for a payload with a `to` field, every connected socket but
\* the sender gets one event named by `to` with that payload, whatever rooms
\* it is in, and the sender gets none.
C2_AsStated ==
    (Sent /\ ~last.data.null /\ last.data.to.t = "string") =>
        /\ \A c \in connected \ {last.conn} :
              /\ CountName(last.deliv[c], ToStr(last.data.to)) = 1
              /\ \A i \in DOMAIN last.deliv[c] :
                    last.deliv[c][i].name = ToStr(last.data.to)
                       => last.deliv[c][i].data = last.data
        /\ CountName(last.deliv[last.conn], ToStr(last.data.to)) = 0

\* C2 amended: for a payload its build relays, every connected socket but the
\* sender gets exactly one event from the broadcast emit, named `${to}`, with
\* that payload, whatever rooms it is in; the events of that name it gets
\* number one, or two when `to` is "receive_message" and it is in the chatId
\* room; the sender gets no event.
C2_Broadcast ==
    (Sent /\ Relayed(last.data)) =>
        /\ \A c \in connected \ {last.conn} :
              /\ CountVia(last.deliv[c], "broadcast") = 1
              /\ last.deliv[c][Len(last.deliv[c])]
                    = Ev(ToStr(last.data.to), last.data, "broadcast")
              /\ CountName(last.deliv[c], ToStr(last.data.to))
                    = IF /\ ToStr(last.data.to) = "receive_message"
                         /\ last.data.chatId \in rooms[c]
                      THEN 2 ELSE 1
        /\ last.deliv[last.conn] = <<>>

\* two receivers, one in the room and one in no room, both get the `to` event
C2_Witness ==
    /\ Sent /\ Relayed(last.data)
    /\ last.data.to = Str("u1")
    /\ \E c1, c2 \in connected \ {last.conn} :
          /\ last.data.chatId \in rooms[c1]
          /\ rooms[c2] = {}
          /\ CountName(last.deliv[c1], "u1") = 1
          /\ CountName(last.deliv[c2], "u1") = 1

\* ---- C6 ----
\* C6 as stated: a socket gets a receive_message for a chatId only if it is
\* connected and emitted join_room with that chatId this session; a
\* disconnected socket is in no room and gets nothing; a disconnect delivers
\* nothing to anyone.
C6_AsStated ==
    /\ \A c \in Conns : \A i \in DOMAIN last.deliv[c] :
          last.deliv[c][i].name = "receive_message" =>
             /\ c \in connected
             /\ last.deliv[c][i].data.chatId \in joinEmitted[c]
    /\ \A c \in Conns \ connected : rooms[c] = {} /\ last.deliv[c] = <<>>
    /\ last.op = "disconnect" => last.deliv = NoDeliv

\* ---- C7 ----
Rejoin == last'.op = "join_room" /\ last'.again

JoinedOnce(r) ==
    CountName(last.deliv[r], "receive_message") = 1

\* C7 as stated: a second join_room(chatId) leaves the membership table as it
\* was, and a later send_message to that chatId gives the joined socket
\* exactly one receive_message.
C7_AsStated ==
    /\ [][Rejoin => rooms' = rooms]_vars
    /\ [](Sent /\ ~last.data.null =>
             \A r \in connected \ {last.conn} :
                (rejoined[r] /\ last.data.chatId \in joinEmitted[r])
                   => JoinedOnce(r))

\* C7 amended: a second join_room(chatId) leaves the membership table as it
\* was, and a later send_message to that chatId that the build relays gives
\* the joined socket exactly one receive_message from the room emit (its
\* receive_message events number two only when `to` is "receive_message").
C7_Idempotent ==
    /\ [][Rejoin => rooms' = rooms]_vars
    /\ [](Sent /\ Relayed(last.data) /\ last.data.chatId.t = "string" =>
             \A r \in connected \ {last.conn} :
                (rejoined[r] /\ last.data.chatId \in joinEmitted[r]) =>
                   /\ CountVia(last.deliv[r], "room") = 1
                   /\ CountName(last.deliv[r], "receive_message")
                         = Expected(last.data))

\* a socket that emitted join_room("c1") twice gets a relayed c1 message
C7_Witness ==
    /\ Sent /\ Relayed(last.data)
    /\ last.data = Obj(Str("c1"), Str("u1"))
    /\ \E r \in connected \ {last.conn} :
          /\ rejoined[r]
          /\ joinEmitted[r] = {Str("c1")}
          /\ CountName(last.deliv[r], "receive_message") = 1

\* ---- C8 ----
Malformed(d) == d.null \/ d.chatId.t = "undefined" \/ d.to.t = "undefined"

\* C8 as stated: a send_message with a null payload or one lacking chatId or
\* `to` delivers no event to anyone and raises no error, in both builds.
C8_AsStated ==
    (last.op = "send_message" /\ Malformed(last.data)) =>
        /\ last.deliv = NoDeliv
        /\ ~last.threw
        /\ ~uncaught

\* ---- C3 ----
Done(r) == reqs[r].pc = "done"

\* C3 as stated: a verified user.created event whose user the lookup does not
\* find creates exactly one record, and delivering the same event again, after
\* or during the first delivery, never leaves two records of that clerkId and
\* email.
C3_AsStated ==
    /\ \A r \in Reqs :
          (Done(r) /\ reqs[r].type = "user.created" /\ reqs[r].fresh
             /\ reqs[r].status = 200) => reqs[r].made = 1
    /\ \A u, v \in store :
          (u.clerkId # "" /\ u.clerkId = v.clerkId /\ u.email = v.email) => u = v

\* ---- C4 ----
DeleteReturns(r) ==
    /\ reqs[r].pc = "findOneAndDelete"
    /\ reqs'[r].pc = "done"
    /\ reqs'[r].cause = "none"

\* C4: when findOneAndDelete of a verified user.deleted event returns, one
\* record of that clerkId is gone if there was one, the store is as it was if
\* there was none, and either way the answer is 200 with no error.
C4_Delete ==
    [][\A r \in Reqs : DeleteReturns(r) =>
          LET hits == {u \in store : u.clerkId = reqs[r].data.id} IN
          /\ reqs'[r].status = 200 /\ reqs'[r].error = ""
          /\ IF hits = {}
             THEN store' = store /\ ~reqs'[r].removed
             ELSE (\E u \in hits : store' = store \ {u}) /\ reqs'[r].removed]_vars

\* one user.deleted removed its user, the next one for the same id found none
C4_Witness ==
    \E r1, r2 \in Reqs :
       /\ Done(r1) /\ Done(r2)
       /\ reqs[r1].type = "user.deleted" /\ reqs[r2].type = "user.deleted"
       /\ reqs[r1].data = reqs[r2].data
       /\ reqs[r1].removed /\ reqs[r1].status = 200
       /\ ~reqs[r2].removed /\ reqs[r2].status = 200
       /\ store = {}

\* ---- C9 ----
Response(r) == <<reqs[r].status, reqs[r].error>>

\* C9 as stated: a request rejected for its signature or for the missing
\* secret is answered 400 and changes no record; a failure of the store after
\* verification is answered with something other than the signature rejection.
C9_AsStated ==
    \A r \in Reqs : Done(r) =>
       /\ reqs[r].cause \in {"signature", "secret"} =>
             /\ reqs[r].status = 400
             /\ reqs[r].made = 0 /\ ~reqs[r].removed /\ reqs[r].target = 0
       /\ reqs[r].cause = "store" =>
             Response(r) # <<400, "Webhook verification failed">>

\* ---- C5 ----
\* C5 as stated: every /health request is answered 200, whatever the state of
\* the database connection, through the listening server and through the
\* serverless handler alike.
C5_AsStated ==
    \A c \in Calls : calls[c].pc = "done" =>
       calls[c].status = 200 /\ ~calls[c].threw

\* ---- C10 ----
\* C10 as stated: while no mongoose.connect call has been rejected at most one
\* has been made, and once isConnected is set no further one is made.
C10_AsStated ==
    /\ [](~anyFailed => started <= 1)
    /\ [][isConnected => started' = started]_vars

====
